---- MODULE Spec2Model ----
(***************************************************************************)
(* The Listing Service of src/src/lambda/index.js: five HTTP route         *)
(* handlers (create, read, update, delete, list) over one DynamoDB table   *)
(* keyed by PropertyID.  The file holds two variants of the service: the   *)
(* one of lines 1-153 sanitizes its input with xss(), the one of lines     *)
(* 154-310 resolves the table name from Secrets Manager and does not       *)
(* sanitize.  Each handler makes exactly one store call, so a handler is   *)
(* one atomic action in Spec and SpecScan, which describe the service once *)
(* its start-up is over.  SpecBoot adds the start-up of the second variant *)
(* (the fetch of the table name), SpecRace the handling of two create      *)
(* requests at a time, each split at its await.                            *)
(***************************************************************************)
EXTENDS Integers, Sequences, FiniteSets, TLC

VARIABLES
    variant,      \* which of the two variants of index.js is deployed
    store,        \* the table: a function from the keys that have a row to the row
    req,          \* the request handled last
    res,          \* the response sent for it
    sent,         \* the command that request handed to docClient.send, or "none"
    lastCreated,  \* per key: the body of the create that made the present row,
                  \* while no update or delete of that key has succeeded since
    TABLE_NAME,   \* the module variable TABLE_NAME; store is the table of that name
    startup,      \* the state of the start-up fetch of the secret, "none" without one
    otherTable,   \* the rows of the table of the other name
    namesUsed,    \* the TableName of every command handed to docClient.send so far
    inflight      \* per client: its create request under way (SpecRace)

vars == <<variant, store, req, res, sent, lastCreated,
          TABLE_NAME, startup, otherTable, namesUsed, inflight>>

---------------------------------------------------------------------------
(* Bounds of the model.                                                    *)

\* the number of distinct PropertyIDs the requests are about
NumReqIds == 2

---------------------------------------------------------------------------
(* JavaScript values.  A string is a sequence of tokens: a token is a      *)
(* piece of plain text or one HTML tag.                                    *)

Undef == [t |-> "undefined", s |-> <<>>, n |-> 0]
Str(x) == [t |-> "string", s |-> x, n |-> 0]
Num(k) == [t |-> "number", s |-> <<>>, n |-> k]

\* typeof v
TypeOf(v) == v.t

\* the truthiness of v: undefined, "" and 0 are falsy
Truthy(v) ==
    CASE v.t = "undefined" -> FALSE
      [] v.t = "string" -> v.s # <<>>
      [] v.t = "number" -> v.n # 0

\* v.toString() of a number
NumberToString(k) == <<ToString(k)>>

---------------------------------------------------------------------------
(* The xss() filter with its default options: an HTML comment is removed,  *)
(* a tag that is not on the white list has its angle brackets escaped,     *)
(* white-listed tags and plain text pass.                                  *)

\* an HTML comment, one token
CommentTag == "<!--c-->"

\* stripCommentTag(html), the default allowCommentTag: false
stripCommentTag(html) == SelectSeq(html, LAMBDA tok : tok # CommentTag)

WhiteList == {"<b>", "</b>"}

Tags == {"<script>", "</script>"} \cup WhiteList

EscapeHtml(tok) ==
    CASE tok = "<script>" -> "&lt;script&gt;"
      [] tok = "</script>" -> "&lt;/script&gt;"
      [] OTHER -> tok

FilterToken(tok) == IF tok \in Tags /\ tok \notin WhiteList THEN EscapeHtml(tok) ELSE tok

\* xss(html): html = html || ""; html = html.toString(); then the filter
xss(v) ==
    IF ~Truthy(v) THEN Str(<<>>)
    ELSE IF TypeOf(v) = "number" THEN Str(NumberToString(v.n))
    ELSE Str([i \in 1..Len(stripCommentTag(v.s)) |-> FilterToken(stripCommentTag(v.s)[i])])

---------------------------------------------------------------------------
(* Listings, request bodies and rows.  A body or a row is a function from  *)
(* attribute names to values, Undef standing for an absent attribute.      *)
(* "Extra" stands for any attribute that is not one of the Listing's.      *)

MutableFields == {"Title", "Description", "PropertyType", "Price", "PropertyLocation"}
StringFields == {"PropertyID", "Title", "Description", "PropertyType", "PropertyLocation"}
ListingFields == MutableFields \cup {"PropertyID"}
BodyFields == ListingFields \cup {"Extra"}

EmptyBody == [f \in BodyFields |-> Undef]

\* data.Item of a GetCommand that found no row
NoItem == EmptyBody

Markup == <<"<script>", "x", "</script>">>

ReqIds == {<<"p" \o ToString(i)>> : i \in 1..NumReqIds}

BaseBody(id) ==
    [PropertyID |-> Str(id), Title |-> Str(<<"A">>), Description |-> Str(<<"d">>),
     PropertyType |-> Str(<<"Rent">>), Price |-> Num(100),
     PropertyLocation |-> Str(<<"X">>), Extra |-> Undef]

\* the values a field of a create request takes, besides the one of BaseBody
Alternatives(f) ==
    CASE f = "PropertyID" -> {Undef, Num(7)}
      [] f = "Title" -> {Undef, Str(<<>>), Num(7), Str(Markup)}
      [] f = "Description" -> {Undef, Num(7)}
      [] f = "PropertyType" -> {Undef, Str(<<"Lease">>)}
      [] f = "Price" -> {Undef, Num(-5), Str(Markup)}
      [] f = "PropertyLocation" -> {Undef, Num(7)}
      [] f = "Extra" -> {Str(<<"e">>)}

FirstId == <<"p1">>

\* the bodies of the create requests: a complete listing for each id, and
\* for the first id the listing with one field changed
CreateBodies ==
    {BaseBody(id) : id \in ReqIds} \cup
    UNION {{[BaseBody(FirstId) EXCEPT ![f] = v] : v \in Alternatives(f)} : f \in BodyFields}

\* the bodies of the update requests: payloads that supply at most one
\* field, and complete ones
UpdateBodies ==
    {EmptyBody,
     [EmptyBody EXCEPT !["Title"] = Str(<<>>)],
     [EmptyBody EXCEPT !["Title"] = Str(<<"B">>)],
     [EmptyBody EXCEPT !["Price"] = Num(250)],
     [EmptyBody EXCEPT !["Price"] = Num(0)],
     [BaseBody(FirstId) EXCEPT !["Title"] = Str(<<"B">>)],
     [BaseBody(FirstId) EXCEPT !["Title"] = Str(Markup)],
     [BaseBody(FirstId) EXCEPT !["Price"] = Str(Markup)]}

---------------------------------------------------------------------------
(* validateProperty and sanitizeInput.                                     *)

NoError == "null"

\* validateProperty without the sign check on Price
validatePropertyAnyPrice(data) ==
    IF ~Truthy(data.PropertyID) \/ TypeOf(data.PropertyID) # "string"
      THEN "Invalid PropertyID"
    ELSE IF ~Truthy(data.Title) \/ TypeOf(data.Title) # "string"
      THEN "Invalid Title"
    ELSE IF ~Truthy(data.Description) \/ TypeOf(data.Description) # "string"
      THEN "Invalid Description"
    ELSE IF data.PropertyType \notin {Str(<<"Rent">>), Str(<<"Sale">>)}
      THEN "Invalid PropertyType (Must be 'Rent' or 'Sale')"
    ELSE IF TypeOf(data.Price) # "number"
      THEN "Invalid Price"
    ELSE IF ~Truthy(data.PropertyLocation) \/ TypeOf(data.PropertyLocation) # "string"
      THEN "Invalid PropertyLocation"
    ELSE NoError

\* validateProperty with the check of Price ahead of the check of PropertyType
validatePropertyPriceFirst(data) ==
    IF ~Truthy(data.PropertyID) \/ TypeOf(data.PropertyID) # "string"
      THEN "Invalid PropertyID"
    ELSE IF ~Truthy(data.Title) \/ TypeOf(data.Title) # "string"
      THEN "Invalid Title"
    ELSE IF ~Truthy(data.Description) \/ TypeOf(data.Description) # "string"
      THEN "Invalid Description"
    ELSE IF TypeOf(data.Price) # "number" \/ data.Price.n < 0
      THEN "Invalid Price"
    ELSE IF data.PropertyType \notin {Str(<<"Rent">>), Str(<<"Sale">>)}
      THEN "Invalid PropertyType (Must be 'Rent' or 'Sale')"
    ELSE IF ~Truthy(data.PropertyLocation) \/ TypeOf(data.PropertyLocation) # "string"
      THEN "Invalid PropertyLocation"
    ELSE NoError

validateProperty(data) ==
    IF ~Truthy(data.PropertyID) \/ TypeOf(data.PropertyID) # "string"
      THEN "Invalid PropertyID"
    ELSE IF ~Truthy(data.Title) \/ TypeOf(data.Title) # "string"
      THEN "Invalid Title"
    ELSE IF ~Truthy(data.Description) \/ TypeOf(data.Description) # "string"
      THEN "Invalid Description"
    ELSE IF data.PropertyType \notin {Str(<<"Rent">>), Str(<<"Sale">>)}
      THEN "Invalid PropertyType (Must be 'Rent' or 'Sale')"
    ELSE IF TypeOf(data.Price) # "number" \/ data.Price.n < 0
      THEN "Invalid Price"
    ELSE IF ~Truthy(data.PropertyLocation) \/ TypeOf(data.PropertyLocation) # "string"
      THEN "Invalid PropertyLocation"
    ELSE NoError

\* sanitizeInput with Title taken from the wrong field
sanitizeInputWrongField(data) ==
    [PropertyID |-> xss(data.PropertyID),
     Title |-> xss(data.Description),
     Description |-> xss(data.Description),
     PropertyType |-> xss(data.PropertyType),
     Price |-> data.Price,
     PropertyLocation |-> xss(data.PropertyLocation),
     Extra |-> Undef]

sanitizeInput(data) ==
    [PropertyID |-> xss(data.PropertyID),
     Title |-> xss(data.Title),
     Description |-> xss(data.Description),
     PropertyType |-> xss(data.PropertyType),
     Price |-> data.Price,
     PropertyLocation |-> xss(data.PropertyLocation),
     Extra |-> Undef]

---------------------------------------------------------------------------
(* The table behind docClient.send.  Each command yields the table after   *)
(* it and err, the message of the error it threw ("" when it threw none).  *)
(* outcome is the store's own verdict on the call: "ok", or "fail" for a   *)
(* throttled, unreachable or forbidden call.                               *)

ConditionalCheckFailed == "The conditional request failed"
BackendFailure == "Service unavailable"
UndefinedValue == "Pass options.removeUndefinedValues=true to remove undefined values"

Outcomes == {"ok", "fail"}

\* a PutCommand without its ConditionExpression: it overwrites
PutCommandUnguarded(table, Item, outcome) ==
    IF outcome = "fail" THEN [store |-> table, err |-> BackendFailure]
    ELSE [store |-> (Item.PropertyID.s :> Item) @@ table, err |-> ""]

\* PutCommand with ConditionExpression attribute_not_exists(PropertyID)
PutCommand(table, Item, outcome) ==
    LET key == Item.PropertyID.s
    IN  IF outcome = "fail" THEN [store |-> table, err |-> BackendFailure]
        ELSE IF key \in DOMAIN table
          THEN [store |-> table, err |-> ConditionalCheckFailed]
        ELSE [store |-> (key :> Item) @@ table, err |-> ""]

\* a GetCommand that takes the row out of the table
GetCommandConsuming(table, id, outcome) ==
    IF outcome = "fail" THEN [store |-> table, err |-> BackendFailure, Item |-> NoItem]
    ELSE [store |-> [k \in DOMAIN table \ {id} |-> table[k]], err |-> "",
          Item |-> IF id \in DOMAIN table THEN table[id] ELSE NoItem]

\* GetCommand: data.Item is the row, or undefined
GetCommand(table, id, outcome) ==
    IF outcome = "fail" THEN [store |-> table, err |-> BackendFailure, Item |-> NoItem]
    ELSE [store |-> table, err |-> "",
          Item |-> IF id \in DOMAIN table THEN table[id] ELSE NoItem]

\* an UpdateCommand without its ConditionExpression: it creates the row
UpdateCommandUnguarded(table, id, values, outcome) ==
    IF \E f \in MutableFields : values[f] = Undef
      THEN [store |-> table, err |-> UndefinedValue]
    ELSE IF outcome = "fail" THEN [store |-> table, err |-> BackendFailure]
    ELSE [store |-> (id :> [f \in BodyFields |->
                              IF f \in MutableFields THEN values[f]
                              ELSE IF f = "PropertyID" THEN Str(id)
                              ELSE IF id \in DOMAIN table THEN table[id][f]
                              ELSE Undef]) @@ table,
          err |-> ""]

\* an UpdateCommand that SETs PropertyID as well, when the values carry one
UpdateCommandSetsKey(table, id, values, outcome) ==
    IF \E f \in MutableFields : values[f] = Undef
      THEN [store |-> table, err |-> UndefinedValue]
    ELSE IF outcome = "fail" THEN [store |-> table, err |-> BackendFailure]
    ELSE IF id \notin DOMAIN table
      THEN [store |-> table, err |-> ConditionalCheckFailed]
    ELSE [store |-> [table EXCEPT ![id] =
                        [f \in BodyFields |->
                            IF f \in MutableFields \/ (f = "PropertyID" /\ values[f] # Undef)
                              THEN values[f] ELSE @[f]]],
          err |-> ""]

\* an UpdateCommand that SETs the attributes the values supply and leaves
\* the others as they are
UpdateCommandPatch(table, id, values, outcome) ==
    IF outcome = "fail" THEN [store |-> table, err |-> BackendFailure]
    ELSE IF id \notin DOMAIN table
      THEN [store |-> table, err |-> ConditionalCheckFailed]
    ELSE [store |-> [table EXCEPT ![id] =
                        [f \in BodyFields |->
                            IF f \in MutableFields /\ Truthy(values[f])
                              THEN values[f] ELSE @[f]]],
          err |-> ""]

\* UpdateCommand: SET of the five attributes with ConditionExpression
\* attribute_exists(PropertyID).  The document client, built without
\* removeUndefinedValues, rejects an undefined attribute value before any
\* call is made.
UpdateCommand(table, id, values, outcome) ==
    IF \E f \in MutableFields : values[f] = Undef
      THEN [store |-> table, err |-> UndefinedValue]
    ELSE IF outcome = "fail" THEN [store |-> table, err |-> BackendFailure]
    ELSE IF id \notin DOMAIN table
      THEN [store |-> table, err |-> ConditionalCheckFailed]
    ELSE [store |-> [table EXCEPT ![id] =
                        [f \in BodyFields |->
                            IF f \in MutableFields THEN values[f] ELSE @[f]]],
          err |-> ""]

\* a DeleteCommand without its ConditionExpression
DeleteCommandUnguarded(table, id, outcome) ==
    IF outcome = "fail" THEN [store |-> table, err |-> BackendFailure]
    ELSE [store |-> [k \in DOMAIN table \ {id} |-> table[k]], err |-> ""]

\* a DeleteCommand that reports success and leaves the row
DeleteCommandKeeping(table, id, outcome) ==
    IF outcome = "fail" THEN [store |-> table, err |-> BackendFailure]
    ELSE IF id \notin DOMAIN table
      THEN [store |-> table, err |-> ConditionalCheckFailed]
    ELSE [store |-> table, err |-> ""]

\* DeleteCommand with ConditionExpression attribute_exists(PropertyID)
DeleteCommand(table, id, outcome) ==
    IF outcome = "fail" THEN [store |-> table, err |-> BackendFailure]
    ELSE IF id \notin DOMAIN table
      THEN [store |-> table, err |-> ConditionalCheckFailed]
    ELSE [store |-> [k \in DOMAIN table \ {id} |-> table[k]], err |-> ""]

\* the sets of k keys of K
RECURSIVE KeySets(_, _)
KeySets(K, k) ==
    IF k = 0 THEN {{}}
    ELSE UNION {{S \cup {x} : S \in KeySets(K \ {x}, k - 1)} : x \in K}

\* a ScanCommand whose Limit is ignored
ScanPagesUnlimited(table, limit) == {{table[k] : k \in DOMAIN table}}

\* ScanCommand with Limit: the pages the table may answer with, each the
\* rows of limit keys (all of them when there are no more than limit), in
\* the table's own order
ScanPages(table, limit) ==
    LET n == Cardinality(DOMAIN table)
    IN  IF n <= limit THEN {{table[k] : k \in DOMAIN table}}
        ELSE {{table[k] : k \in DOMAIN table \ X} : X \in KeySets(DOMAIN table, n - limit)}

---------------------------------------------------------------------------
(* The service.                                                            *)

Variants == {"xss", "secrets"}

\* Limit of the ScanCommand of GET /properties
ScanLimit == 10

Response(status, message, error, details, Item, Items) ==
    [status |-> status, message |-> message, error |-> error,
     details |-> details, Item |-> Item, Items |-> Items]

NoRequest == [op |-> "none", id |-> <<>>, body |-> EmptyBody]
NoResponse == Response(0, "", "", "", NoItem, {})

\* rows that were in the table before the service started
PreIds == {<<"q" \o ToString(i)>> : i \in 1..(ScanLimit - 1)}
Preloaded == [k \in PreIds |-> BaseBody(k)]
EmptyTable == [k \in {} |-> NoItem]

\* let TABLE_NAME = "RealEstateListings"
DefaultTable == "RealEstateListings"

\* the clients of SpecRace
Clients == {"c1", "c2"}

\* no request of a client is under way
Idle ==
    [pc |-> "idle", op |-> "none", id |-> <<>>, body |-> EmptyBody, Item |-> EmptyBody,
     Items |-> {}, err |-> "", status |-> 0, responses |-> 0]

\* the start-up is over: the variant that fetches the secret has assigned
\* the table name it found there (terraform: tableName = "RealEstateListings")
Started ==
    /\ TABLE_NAME = DefaultTable
    /\ startup = IF variant = "secrets" THEN "resolved" ELSE "none"
    /\ otherTable = EmptyTable
    /\ namesUsed = {}
    /\ inflight = [c \in Clients |-> Idle]

\* the service starts on an empty table
Init ==
    /\ variant \in Variants
    /\ store = EmptyTable
    /\ req = NoRequest
    /\ res = NoResponse
    /\ sent = "none"
    /\ lastCreated = EmptyTable
    /\ Started

\* the service starts on a table that holds rows already
InitScan ==
    /\ variant \in Variants
    /\ store = Preloaded
    /\ req = NoRequest
    /\ res = NoResponse
    /\ sent = "none"
    /\ lastCreated = EmptyTable
    /\ Started

\* what the row of key k was created from, if that is still known
Forget(created, k) == [j \in DOMAIN created \ {k} |-> created[j]]

\* app.post("/property")
PostProperty(body, outcome) ==
    LET error == validateProperty(body)
        Item == IF variant = "xss" THEN sanitizeInput(body) ELSE body
        r == PutCommand(store, Item, outcome)
    IN  /\ req' = [op |-> "POST /property", id |-> <<>>, body |-> body]
        /\ IF error # NoError
             THEN /\ res' = Response(400, "", error, "", NoItem, {})
                  /\ sent' = "none"
                  /\ UNCHANGED <<store, lastCreated>>
             ELSE /\ sent' = "PutCommand"
                  /\ store' = r.store
                  /\ res' = IF r.err = ""
                              THEN Response(201, "Property created successfully", "", "", NoItem, {})
                              ELSE Response(500, "", "Error creating property", r.err, NoItem, {})
                  /\ lastCreated' = IF r.err = ""
                                      THEN (Item.PropertyID.s :> body) @@ lastCreated
                                      ELSE lastCreated
        /\ UNCHANGED variant

\* app.get("/property/:id")
GetProperty(id, outcome) ==
    LET data == GetCommand(store, id, outcome)
    IN  /\ req' = [op |-> "GET /property/:id", id |-> id, body |-> EmptyBody]
        /\ sent' = "GetCommand"
        /\ store' = data.store
        /\ res' = IF data.err # ""
                    THEN Response(500, "", "Error fetching property", data.err, NoItem, {})
                  ELSE IF data.Item = NoItem
                    THEN Response(404, "", "Property not found", "", NoItem, {})
                  ELSE Response(201, "", "", "", data.Item, {})
        /\ UNCHANGED <<variant, lastCreated>>

\* app.put("/property/:id") without the check for "No fields to update"
PutPropertyUnchecked(id, body, outcome) ==
    LET values == IF variant = "xss" THEN sanitizeInput(body) ELSE body
        r == UpdateCommand(store, id, values, outcome)
    IN  /\ req' = [op |-> "PUT /property/:id", id |-> id, body |-> body]
        /\ sent' = "UpdateCommand"
        /\ store' = r.store
        /\ res' = IF r.err = ""
                    THEN Response(200, "Property updated successfully", "", "", NoItem, {})
                    ELSE Response(500, "", "Error updating property", r.err, NoItem, {})
        /\ lastCreated' = IF r.err = "" THEN Forget(lastCreated, id) ELSE lastCreated
        /\ UNCHANGED variant

\* app.put("/property/:id") whose check tests the fields for undefined only
PutPropertyDefinedCheck(id, body, outcome) ==
    LET values == IF variant = "xss" THEN sanitizeInput(body) ELSE body
        r == UpdateCommand(store, id, values, outcome)
    IN  /\ req' = [op |-> "PUT /property/:id", id |-> id, body |-> body]
        /\ IF \A f \in MutableFields : values[f] = Undef
             THEN /\ res' = Response(400, "", "No fields to update", "", NoItem, {})
                  /\ sent' = "none"
                  /\ UNCHANGED <<store, lastCreated>>
             ELSE /\ sent' = "UpdateCommand"
                  /\ store' = r.store
                  /\ res' = IF r.err = ""
                              THEN Response(200, "Property updated successfully", "", "", NoItem, {})
                              ELSE Response(500, "", "Error updating property", r.err, NoItem, {})
                  /\ lastCreated' = IF r.err = "" THEN Forget(lastCreated, id)
                                    ELSE lastCreated
        /\ UNCHANGED variant

\* app.put("/property/:id")
PutProperty(id, body, outcome) ==
    LET values == IF variant = "xss" THEN sanitizeInput(body) ELSE body
        r == UpdateCommand(store, id, values, outcome)
    IN  /\ req' = [op |-> "PUT /property/:id", id |-> id, body |-> body]
        /\ IF \A f \in MutableFields : ~Truthy(values[f])
             THEN /\ res' = Response(400, "", "No fields to update", "", NoItem, {})
                  /\ sent' = "none"
                  /\ UNCHANGED <<store, lastCreated>>
             ELSE /\ sent' = "UpdateCommand"
                  /\ store' = r.store
                  /\ res' = IF r.err = ""
                              THEN Response(200, "Property updated successfully", "", "", NoItem, {})
                              ELSE Response(500, "", "Error updating property", r.err, NoItem, {})
                  /\ lastCreated' = IF r.err = "" THEN Forget(lastCreated, id)
                                    ELSE lastCreated
        /\ UNCHANGED variant

\* app.delete("/property/:id")
DeleteProperty(id, outcome) ==
    LET r == DeleteCommand(store, id, outcome)
    IN  /\ req' = [op |-> "DELETE /property/:id", id |-> id, body |-> EmptyBody]
        /\ sent' = "DeleteCommand"
        /\ store' = r.store
        /\ res' = IF r.err = ""
                    THEN Response(200, "Property deleted successfully", "", "", NoItem, {})
                    ELSE Response(500, "", "Error deleting property", r.err, NoItem, {})
        /\ lastCreated' = IF r.err = "" THEN Forget(lastCreated, id) ELSE lastCreated
        /\ UNCHANGED variant

\* app.get("/properties")
GetProperties(outcome) ==
    /\ req' = [op |-> "GET /properties", id |-> <<>>, body |-> EmptyBody]
    /\ sent' = "ScanCommand"
    /\ IF outcome = "fail"
         THEN res' = Response(500, "", "Error fetching properties", BackendFailure, NoItem, {})
         ELSE \E Items \in ScanPages(store, ScanLimit) :
                 res' = Response(200, "", "", "", NoItem, Items)
    /\ UNCHANGED <<variant, store, lastCreated>>

\* what every handler does of the process's state: it runs while the process
\* lives, and its command, if it sends one, names TableName: TABLE_NAME
Serves ==
    /\ startup # "exited"
    /\ namesUsed' = IF sent' = "none" THEN namesUsed ELSE namesUsed \cup {TABLE_NAME}
    /\ UNCHANGED <<TABLE_NAME, startup, otherTable, inflight>>

\* one request is handled: its body is drawn from creates or from updates
Requests(creates, updates) ==
    \/ (\E body \in creates, outcome \in Outcomes : PostProperty(body, outcome)) /\ Serves
    \/ (\E id \in ReqIds, outcome \in Outcomes : GetProperty(id, outcome)) /\ Serves
    \/ (\E id \in ReqIds, body \in updates, outcome \in Outcomes :
            PutProperty(id, body, outcome)) /\ Serves
    \/ (\E id \in ReqIds, outcome \in Outcomes : DeleteProperty(id, outcome)) /\ Serves
    \/ (\E outcome \in Outcomes : GetProperties(outcome)) /\ Serves

Next == Requests(CreateBodies, UpdateBodies)

Spec == Init /\ [][Next]_vars

\* the requests made of the table that holds rows already: complete
\* listings only
ScanCreateBodies == {BaseBody(id) : id \in ReqIds}
ScanUpdateBodies == {[BaseBody(FirstId) EXCEPT !["Title"] = Str(<<"B">>)]}

NextScan == Requests(ScanCreateBodies, ScanUpdateBodies)

SpecScan == InitScan /\ [][NextScan]_vars

\* a value of field f that the data model does not allow
BadValue(f) ==
    CASE f = "PropertyID" -> Num(7)
      [] f = "Title" -> Str(<<>>)
      [] f = "Description" -> Undef
      [] f = "PropertyType" -> Str(<<"Lease">>)
      [] f = "Price" -> Num(-5)
      [] f = "PropertyLocation" -> Num(7)

\* the creates that break the data model in any set of fields at once
ValidationBodies ==
    {[f \in BodyFields |-> IF f \in bad THEN BadValue(f) ELSE BaseBody(FirstId)[f]] :
        bad \in SUBSET ListingFields}

NextValidate == Requests(ValidationBodies, ScanUpdateBodies)

SpecValidate == Init /\ [][NextValidate]_vars

\* the writes whose fields the sanitizer empties: a Title that is one HTML
\* comment, in a complete listing and beside a Price of 0
PipelineCreateBodies ==
    {BaseBody(id) : id \in ReqIds} \cup
    {[BaseBody(FirstId) EXCEPT !["Title"] = Str(<<CommentTag>>)],
     [BaseBody(FirstId) EXCEPT !["Title"] = Str(<<>>)]}

PipelineUpdateBodies ==
    {EmptyBody,
     [EmptyBody EXCEPT !["Title"] = Str(<<CommentTag>>), !["Price"] = Num(0)],
     [BaseBody(FirstId) EXCEPT !["Title"] = Str(<<CommentTag>>)],
     [BaseBody(FirstId) EXCEPT !["Title"] = Str(<<"B">>)]}

NextPipeline == Requests(PipelineCreateBodies, PipelineUpdateBodies)

SpecPipeline == Init /\ [][NextPipeline]_vars

(***************************************************************************)
(* The start-up of the variant that reads the table name from the secret.  *)
(* The module calls getDBSecret inside an async function it does not       *)
(* await, then app.listen and the export of the handler: the process       *)
(* serves requests while the fetch is pending.                             *)
(***************************************************************************)

\* the tableName the secret may hold: the name of the default or another
SecretNames == {DefaultTable, "ListingsFromSecret"}

\* the process is loaded: TABLE_NAME holds its default, the fetch is on its way
InitBoot ==
    /\ variant \in Variants
    /\ store = EmptyTable
    /\ req = NoRequest
    /\ res = NoResponse
    /\ sent = "none"
    /\ lastCreated = EmptyTable
    /\ TABLE_NAME = DefaultTable
    /\ startup = IF variant = "secrets" THEN "pending" ELSE "none"
    /\ otherTable = EmptyTable
    /\ namesUsed = {}
    /\ inflight = [c \in Clients |-> Idle]

\* getDBSecret, the try branch: the secret arrives, TABLE_NAME = secret.tableName;
\* from here on the commands reach the table of that name
getDBSecretResolves(name) ==
    /\ variant = "secrets"
    /\ startup = "pending"
    /\ startup' = "resolved"
    /\ TABLE_NAME' = name
    /\ IF name = TABLE_NAME
       THEN UNCHANGED <<store, otherTable, lastCreated>>
       ELSE store' = otherTable /\ otherTable' = store /\ lastCreated' = EmptyTable
    /\ UNCHANGED <<variant, req, res, sent, namesUsed, inflight>>

\* getDBSecret, the catch branch: the fetch or the parse fails, process.exit(1)
getDBSecretFails ==
    /\ variant = "secrets"
    /\ startup = "pending"
    /\ startup' = "exited"
    /\ UNCHANGED <<variant, store, req, res, sent, lastCreated,
                   TABLE_NAME, otherTable, namesUsed, inflight>>

NextBoot ==
    \/ NextScan
    \/ \E name \in SecretNames : getDBSecretResolves(name)
    \/ getDBSecretFails

SpecBoot == InitBoot /\ [][NextBoot]_vars

(***************************************************************************)
(* Two create requests at a time.  The handler of a create runs up to its  *)
(* await of docClient.send, the table executes the command as one          *)
(* conditional write, and the handler goes on after the await.             *)
(***************************************************************************)

\* the creates that race: complete listings of one PropertyID that differ in
\* their Title, and one that validateProperty rejects
RaceBodies ==
    {BaseBody(FirstId),
     [BaseBody(FirstId) EXCEPT !["Title"] = Str(<<"B">>)],
     [BaseBody(FirstId) EXCEPT !["Title"] = Str(Markup)],
     [BaseBody(FirstId) EXCEPT !["Title"] = Undef]}

\* app.post("/property") up to the await: validation, sanitizing, and the
\* PutCommand handed to docClient.send
PostReceive(c, body) ==
    LET error == validateProperty(body)
        Item == IF variant = "xss" THEN sanitizeInput(body) ELSE body
    IN  /\ startup # "exited"
        /\ inflight[c].pc = "idle"
        /\ IF error # NoError
             THEN /\ inflight' = [inflight EXCEPT ![c] =
                                     [@ EXCEPT !.pc = "responded", !.op = "POST",
                                               !.body = body, !.status = 400,
                                               !.responses = @ + 1]]
                  /\ UNCHANGED <<sent, namesUsed>>
             ELSE /\ inflight' = [inflight EXCEPT ![c] =
                                     [@ EXCEPT !.pc = "sending", !.op = "POST",
                                               !.body = body, !.Item = Item]]
                  /\ sent' = "PutCommand"
                  /\ namesUsed' = namesUsed \cup {TABLE_NAME}
        /\ UNCHANGED <<variant, store, req, res, lastCreated,
                       TABLE_NAME, startup, otherTable>>

\* the table executes the PutCommand of c; the promise of send settles
PostStore(c, outcome) ==
    LET r == PutCommand(store, inflight[c].Item, outcome)
    IN  /\ inflight[c].pc = "sending"
        /\ inflight[c].op = "POST"
        /\ store' = r.store
        /\ lastCreated' = IF r.err = ""
                            THEN (inflight[c].Item.PropertyID.s :> inflight[c].body)
                                     @@ lastCreated
                            ELSE lastCreated
        /\ inflight' = [inflight EXCEPT ![c] = [@ EXCEPT !.pc = "settled", !.err = r.err]]
        /\ UNCHANGED <<variant, req, res, sent, TABLE_NAME, startup, otherTable, namesUsed>>

\* app.post("/property") after the await: 201, or the 500 of the catch
PostRespond(c) ==
    /\ startup # "exited"
    /\ inflight[c].pc = "settled"
    /\ inflight[c].op = "POST"
    /\ inflight' = [inflight EXCEPT ![c] =
                       [@ EXCEPT !.pc = "responded",
                                 !.status = IF inflight[c].err = "" THEN 201 ELSE 500,
                                 !.responses = @ + 1]]
    /\ UNCHANGED <<variant, store, req, res, sent, lastCreated,
                   TABLE_NAME, startup, otherTable, namesUsed>>

NextRace ==
    \/ \E c \in Clients, body \in RaceBodies : PostReceive(c, body)
    \/ \E c \in Clients, outcome \in Outcomes : PostStore(c, outcome)
    \/ \E c \in Clients : PostRespond(c)

SpecRace == Init /\ [][NextRace]_vars

(***************************************************************************)
(* An update and a delete at a time, on a table that holds the listing.    *)
(* Each handler runs up to its await of docClient.send, the table executes *)
(* the command as one conditional write, the handler goes on after it.     *)
(***************************************************************************)

\* the table holds the listing of FirstId, made by an earlier create
InitExisting ==
    /\ variant \in Variants
    /\ store = (FirstId :> BaseBody(FirstId))
    /\ req = NoRequest
    /\ res = NoResponse
    /\ sent = "none"
    /\ lastCreated = (FirstId :> BaseBody(FirstId))
    /\ Started

\* the payloads of the racing updates: a complete one and an empty one
RaceUpdateBodies == {[BaseBody(FirstId) EXCEPT !["Title"] = Str(<<"B">>)], EmptyBody}

\* app.put("/property/:id") up to the await: sanitizing, the no-fields check
\* and the UpdateCommand handed to docClient.send
PutReceive(c, id, body) ==
    LET values == IF variant = "xss" THEN sanitizeInput(body) ELSE body
    IN  /\ startup # "exited"
        /\ inflight[c].pc = "idle"
        /\ IF \A f \in MutableFields : ~Truthy(values[f])
             THEN /\ inflight' = [inflight EXCEPT ![c] =
                                     [@ EXCEPT !.pc = "responded", !.op = "PUT", !.id = id,
                                               !.body = body, !.status = 400,
                                               !.responses = @ + 1]]
                  /\ UNCHANGED <<sent, namesUsed>>
             ELSE /\ inflight' = [inflight EXCEPT ![c] =
                                     [@ EXCEPT !.pc = "sending", !.op = "PUT", !.id = id,
                                               !.body = body, !.Item = values]]
                  /\ sent' = "UpdateCommand"
                  /\ namesUsed' = namesUsed \cup {TABLE_NAME}
        /\ UNCHANGED <<variant, store, req, res, lastCreated,
                       TABLE_NAME, startup, otherTable>>

\* the table executes the UpdateCommand of c; the promise of send settles
PutStore(c, outcome) ==
    LET r == UpdateCommand(store, inflight[c].id, inflight[c].Item, outcome)
    IN  /\ inflight[c].pc = "sending"
        /\ inflight[c].op = "PUT"
        /\ store' = r.store
        /\ lastCreated' = IF r.err = "" THEN Forget(lastCreated, inflight[c].id)
                          ELSE lastCreated
        /\ inflight' = [inflight EXCEPT ![c] = [@ EXCEPT !.pc = "settled", !.err = r.err]]
        /\ UNCHANGED <<variant, req, res, sent, TABLE_NAME, startup, otherTable, namesUsed>>

\* app.put("/property/:id") after the await: 200, or the 500 of the catch
PutRespond(c) ==
    /\ startup # "exited"
    /\ inflight[c].pc = "settled"
    /\ inflight[c].op = "PUT"
    /\ inflight' = [inflight EXCEPT ![c] =
                       [@ EXCEPT !.pc = "responded",
                                 !.status = IF inflight[c].err = "" THEN 200 ELSE 500,
                                 !.responses = @ + 1]]
    /\ UNCHANGED <<variant, store, req, res, sent, lastCreated,
                   TABLE_NAME, startup, otherTable, namesUsed>>

\* app.delete("/property/:id") up to the await: the DeleteCommand handed to
\* docClient.send
DeleteReceive(c, id) ==
    /\ startup # "exited"
    /\ inflight[c].pc = "idle"
    /\ inflight' = [inflight EXCEPT ![c] =
                       [@ EXCEPT !.pc = "sending", !.op = "DELETE", !.id = id]]
    /\ sent' = "DeleteCommand"
    /\ namesUsed' = namesUsed \cup {TABLE_NAME}
    /\ UNCHANGED <<variant, store, req, res, lastCreated, TABLE_NAME, startup, otherTable>>

\* the table executes the DeleteCommand of c; the promise of send settles
DeleteStore(c, outcome) ==
    LET r == DeleteCommand(store, inflight[c].id, outcome)
    IN  /\ inflight[c].pc = "sending"
        /\ inflight[c].op = "DELETE"
        /\ store' = r.store
        /\ lastCreated' = IF r.err = "" THEN Forget(lastCreated, inflight[c].id)
                          ELSE lastCreated
        /\ inflight' = [inflight EXCEPT ![c] = [@ EXCEPT !.pc = "settled", !.err = r.err]]
        /\ UNCHANGED <<variant, req, res, sent, TABLE_NAME, startup, otherTable, namesUsed>>

\* app.delete("/property/:id") after the await: 200, or the 500 of the catch
DeleteRespond(c) ==
    /\ startup # "exited"
    /\ inflight[c].pc = "settled"
    /\ inflight[c].op = "DELETE"
    /\ inflight' = [inflight EXCEPT ![c] =
                       [@ EXCEPT !.pc = "responded",
                                 !.status = IF inflight[c].err = "" THEN 200 ELSE 500,
                                 !.responses = @ + 1]]
    /\ UNCHANGED <<variant, store, req, res, sent, lastCreated,
                   TABLE_NAME, startup, otherTable, namesUsed>>

NextRaceExisting ==
    \/ \E c \in Clients, id \in ReqIds, body \in RaceUpdateBodies : PutReceive(c, id, body)
    \/ \E c \in Clients, outcome \in Outcomes : PutStore(c, outcome)
    \/ \E c \in Clients : PutRespond(c)
    \/ \E c \in Clients, id \in ReqIds : DeleteReceive(c, id)
    \/ \E c \in Clients, outcome \in Outcomes : DeleteStore(c, outcome)
    \/ \E c \in Clients : DeleteRespond(c)

SpecRaceExisting == InitExisting /\ [][NextRaceExisting]_vars

(***************************************************************************)
(* Every request from its arrival to its response.  The read and the list  *)
(* handlers are split at their await like the three others; a request      *)
(* under way is answered when the promise of send has settled and the      *)
(* handler has run on, which the run-time does for every settled promise.  *)
(***************************************************************************)

\* app.get("/property/:id") up to the await: the GetCommand handed to
\* docClient.send
GetReceive(c, id) ==
    /\ startup # "exited"
    /\ inflight[c].pc = "idle"
    /\ inflight' = [inflight EXCEPT ![c] =
                       [@ EXCEPT !.pc = "sending", !.op = "GET", !.id = id]]
    /\ sent' = "GetCommand"
    /\ namesUsed' = namesUsed \cup {TABLE_NAME}
    /\ UNCHANGED <<variant, store, req, res, lastCreated, TABLE_NAME, startup, otherTable>>

\* the table executes the GetCommand of c; the promise of send settles
GetStore(c, outcome) ==
    LET data == GetCommand(store, inflight[c].id, outcome)
    IN  /\ inflight[c].pc = "sending"
        /\ inflight[c].op = "GET"
        /\ store' = data.store
        /\ inflight' = [inflight EXCEPT ![c] =
                           [@ EXCEPT !.pc = "settled", !.err = data.err, !.Item = data.Item]]
        /\ UNCHANGED <<variant, req, res, sent, lastCreated,
                       TABLE_NAME, startup, otherTable, namesUsed>>

\* app.get("/property/:id") whose catch ends the handler without a response
GetRespondSilent(c) ==
    /\ startup # "exited"
    /\ inflight[c].pc = "settled"
    /\ inflight[c].op = "GET"
    /\ inflight' = [inflight EXCEPT ![c] =
                       IF inflight[c].err # ""
                         THEN [@ EXCEPT !.pc = "responded"]
                         ELSE [@ EXCEPT !.pc = "responded",
                                        !.status = IF inflight[c].Item = NoItem
                                                     THEN 404 ELSE 201,
                                        !.responses = @ + 1]]
    /\ UNCHANGED <<variant, store, req, res, sent, lastCreated,
                   TABLE_NAME, startup, otherTable, namesUsed>>

\* app.get("/property/:id") after the await: 404, the item, or the 500 of
\* the catch
GetRespond(c) ==
    /\ startup # "exited"
    /\ inflight[c].pc = "settled"
    /\ inflight[c].op = "GET"
    /\ inflight' = [inflight EXCEPT ![c] =
                       [@ EXCEPT !.pc = "responded",
                                 !.status = IF inflight[c].err # "" THEN 500
                                            ELSE IF inflight[c].Item = NoItem THEN 404
                                            ELSE 201,
                                 !.responses = @ + 1]]
    /\ UNCHANGED <<variant, store, req, res, sent, lastCreated,
                   TABLE_NAME, startup, otherTable, namesUsed>>

\* app.get("/properties") up to the await: the ScanCommand handed to
\* docClient.send
ListReceive(c) ==
    /\ startup # "exited"
    /\ inflight[c].pc = "idle"
    /\ inflight' = [inflight EXCEPT ![c] = [@ EXCEPT !.pc = "sending", !.op = "LIST"]]
    /\ sent' = "ScanCommand"
    /\ namesUsed' = namesUsed \cup {TABLE_NAME}
    /\ UNCHANGED <<variant, store, req, res, lastCreated, TABLE_NAME, startup, otherTable>>

\* the table executes the ScanCommand of c; the promise of send settles
ListStore(c, outcome) ==
    /\ inflight[c].pc = "sending"
    /\ inflight[c].op = "LIST"
    /\ IF outcome = "fail"
         THEN inflight' = [inflight EXCEPT ![c] =
                              [@ EXCEPT !.pc = "settled", !.err = BackendFailure]]
         ELSE \E Items \in ScanPages(store, ScanLimit) :
                 inflight' = [inflight EXCEPT ![c] =
                                 [@ EXCEPT !.pc = "settled", !.Items = Items]]
    /\ UNCHANGED <<variant, store, req, res, sent, lastCreated,
                   TABLE_NAME, startup, otherTable, namesUsed>>

\* app.get("/properties") after the await: the items, or the 500 of the catch
ListRespond(c) ==
    /\ startup # "exited"
    /\ inflight[c].pc = "settled"
    /\ inflight[c].op = "LIST"
    /\ inflight' = [inflight EXCEPT ![c] =
                       [@ EXCEPT !.pc = "responded",
                                 !.status = IF inflight[c].err = "" THEN 200 ELSE 500,
                                 !.responses = @ + 1]]
    /\ UNCHANGED <<variant, store, req, res, sent, lastCreated,
                   TABLE_NAME, startup, otherTable, namesUsed>>

\* the bodies of the creates and the updates that are followed to their response
ServeCreateBodies == {BaseBody(FirstId), [BaseBody(FirstId) EXCEPT !["Price"] = Num(-5)]}
ServeUpdateBodies ==
    {[BaseBody(FirstId) EXCEPT !["Title"] = Str(<<"B">>)],
     [EmptyBody EXCEPT !["Title"] = Str(<<"B">>)],
     EmptyBody}

\* a request arrives and its handler runs up to its await
Receives(c) ==
    \/ \E body \in ServeCreateBodies : PostReceive(c, body)
    \/ \E id \in ReqIds : GetReceive(c, id)
    \/ \E id \in ReqIds, body \in ServeUpdateBodies : PutReceive(c, id, body)
    \/ \E id \in ReqIds : DeleteReceive(c, id)
    \/ ListReceive(c)

\* the table executes the command of c, or the call fails
Settles(c) ==
    \/ \E outcome \in Outcomes : PostStore(c, outcome)
    \/ \E outcome \in Outcomes : GetStore(c, outcome)
    \/ \E outcome \in Outcomes : PutStore(c, outcome)
    \/ \E outcome \in Outcomes : DeleteStore(c, outcome)
    \/ \E outcome \in Outcomes : ListStore(c, outcome)

\* the handler of c runs on after its await
Responds(c) ==
    \/ PostRespond(c)
    \/ GetRespond(c)
    \/ PutRespond(c)
    \/ DeleteRespond(c)
    \/ ListRespond(c)

NextServe == \E c \in Clients : Receives(c) \/ Settles(c) \/ Responds(c)

\* every call of send settles, and the handler runs on when it has
ServeFairness == \A c \in Clients : WF_vars(Settles(c)) /\ WF_vars(Responds(c))

SpecServe == Init /\ [][NextServe]_vars /\ ServeFairness


---------------------------------------------------------------------------
(* The properties.                                                         *)

IsCreate(r) == r.op = "POST /property"
IsRead(r) == r.op = "GET /property/:id"
IsUpdate(r) == r.op = "PUT /property/:id"
IsDelete(r) == r.op = "DELETE /property/:id"
IsList(r) == r.op = "GET /properties"

\* the store answered the request's call (it was not throttled or unreachable)
StoreAnswered(r) == r.details # BackendFailure

\* the constraints of the data model on the fields of a Listing
FieldOK(f, v) ==
    CASE f = "PropertyType" -> v \in {Str(<<"Rent">>), Str(<<"Sale">>)}
      [] f = "Price" -> TypeOf(v) = "number" /\ v.n >= 0
      [] OTHER -> TypeOf(v) = "string" /\ v.s # <<>>

ValidListing(b) == \A f \in ListingFields : FieldOK(f, b[f])

\* the create request r is for a PropertyID that has a row in table
CreatesExisting(r, table) ==
    /\ IsCreate(r)
    /\ TypeOf(r.body.PropertyID) = "string"
    /\ r.body.PropertyID.s \in DOMAIN table

\* C1. Create uniqueness: a create request whose PropertyID already has a
\* row is not answered with success, and the row is the same after it in
\* every field.
CreateUniqueness ==
    [][CreatesExisting(req', store) =>
          /\ res'.status >= 400
          /\ req'.body.PropertyID.s \in DOMAIN store'
          /\ store'[req'.body.PropertyID.s] = store[req'.body.PropertyID.s]]_vars

\* a create of an id that has a row was refused by the conditional put
CreateUniquenessWitness ==
    /\ IsCreate(req)
    /\ sent = "PutCommand"
    /\ res.status = 500
    /\ res.details = ConditionalCheckFailed
    /\ req.body.PropertyID.s \in DOMAIN store

\* C2. Update and delete require existence: an update or a delete of an id
\* that has no row fails, and the id has no row after it.
UpdateDeleteRequireExistence ==
    [][((IsUpdate(req') \/ IsDelete(req')) /\ req'.id \notin DOMAIN store) =>
          /\ res'.status >= 400
          /\ req'.id \notin DOMAIN store']_vars

\* an update that reached the store was refused for an id without a row
UpdateDeleteRequireExistenceWitness ==
    /\ IsUpdate(req)
    /\ sent = "UpdateCommand"
    /\ res.status = 500
    /\ res.details = ConditionalCheckFailed
    /\ req.id \notin DOMAIN store

IsSanitized(v) == TypeOf(v) = "string" => xss(v) = v

\* C4. Sanitization: every string attribute of every row of the store is
\* the output of the markup sanitizer.
StoredStringsSanitized ==
    \A k \in DOMAIN store : \A f \in BodyFields : IsSanitized(store[k][f])

\* C5. List bound: the list operation returns at most 10 rows, whatever the
\* number of rows in the store (here 9 to 11, the table holding 9 rows at
\* the start).
ListBound == IsList(req) => Cardinality(res.Items) <= 10

\* a list of a store of more than 10 rows returned 10 of them
ListBoundWitness ==
    /\ IsList(req)
    /\ res.status = 200
    /\ Cardinality(DOMAIN store) > 10
    /\ Cardinality(res.Items) = 10

\* C6. A read of an id that has a row is answered 200 with the row as its
\* body (when the store answers the call).
ReadAnswers200 ==
    (IsRead(req) /\ req.id \in DOMAIN store /\ StoreAnswered(res)) =>
        /\ res.status = 200
        /\ res.Item = store[req.id]

\* the create request r, for an id without a row in table, carries a valid listing
CreatesNew(r, table) ==
    /\ IsCreate(r)
    /\ ValidListing(r.body)
    /\ r.body.PropertyID.s \notin DOMAIN table

\* the read r is of a row whose creating request is known: nothing was
\* written to the id since
ReadsCreated(r, created) == IsRead(r) /\ r.id \in DOMAIN created

Persisted(f, v) == IF variant = "xss" /\ f \in StringFields THEN xss(v) ELSE v

DeleteThenRead ==
    [][/\ (IsDelete(req') /\ req'.id \in DOMAIN store /\ StoreAnswered(res')) =>
              /\ res'.status = 200
              /\ req'.id \notin DOMAIN store'
       /\ (IsRead(req') /\ req'.id \notin DOMAIN store /\ StoreAnswered(res')) =>
              res'.status = 404
       /\ (DOMAIN store' \ DOMAIN store # {}) => IsCreate(req')]_vars

\* a delete of an id that had a row was answered 200 and the row is gone
DeleteThenReadWitness ==
    /\ IsDelete(req)
    /\ res.status = 200
    /\ res.message = "Property deleted successfully"
    /\ req.id \notin DOMAIN store

\* the payload b supplies a value (not an empty one) for the mutable field f
\* and supplies no other mutable field
SuppliesOnly(b, f) ==
    /\ Truthy(b[f])
    /\ \A g \in MutableFields \ {f} : b[g] = Undef

\* C9. Partial update succeeds: an update of an id that has a row, with a
\* payload that supplies one mutable field only, is answered 200 "Property
\* updated successfully" and the row then holds the supplied value.
PartialUpdateSucceeds ==
    [][\A f \in MutableFields :
          (/\ IsUpdate(req')
           /\ req'.id \in DOMAIN store
           /\ SuppliesOnly(req'.body, f)
           /\ StoreAnswered(res')) =>
              /\ res'.status = 200
              /\ res'.message = "Property updated successfully"
              /\ req'.id \in DOMAIN store'
              /\ store'[req'.id][f] = Persisted(f, req'.body[f])]_vars

\* C10. Reads do not mutate: a read or a list leaves the store as it was,
\* and a read that succeeds returns the row of the store, so two reads with
\* no write in between return the same content.
ReadsDoNotMutate ==
    [][(IsRead(req') \/ IsList(req')) =>
          /\ store' = store
          /\ (IsRead(req') /\ res'.status \in 200..299) =>
                (req'.id \in DOMAIN store /\ res'.Item = store[req'.id])]_vars

\* a read of an id that has a row returned it
ReadsDoNotMutateWitness ==
    /\ IsRead(req)
    /\ res.status \in 200..299
    /\ req.id \in DOMAIN store
    /\ res.Item = store[req.id]

\* the step assigns TABLE_NAME from the secret
AssignsTableName == startup = "pending" /\ startup' = "resolved"

\* C11. Single table name: the table name is assigned from the secret at
\* most once, the assignment comes before the first request is handled,
\* the name does not change afterwards, and every command of every request
\* names the same table.
SingleTableName ==
    [][/\ AssignsTableName => req = NoRequest
       /\ startup \in {"resolved", "exited"} => TABLE_NAME' = TABLE_NAME
       /\ Cardinality(namesUsed') <= 1]_vars

\* C12. Fail-fast configuration: when the start-up fetch of the secret
\* fails the process ends, and it has answered no request before the
\* failure and answers none after it.
FailFastConfiguration ==
    [][/\ startup' = "exited" => res' = NoResponse
       /\ startup = "exited" => res' = res]_vars

\* the requests of clients c and d are two answered creates of valid listings
\* of one PropertyID, and the store answered both calls
RacedCreates(c, d) ==
    /\ c # d
    /\ inflight[c].pc = "responded" /\ inflight[d].pc = "responded"
    /\ ValidListing(inflight[c].body) /\ ValidListing(inflight[d].body)
    /\ inflight[c].body.PropertyID = inflight[d].body.PropertyID
    /\ inflight[c].err # BackendFailure /\ inflight[d].err # BackendFailure

\* C13. Racing creates: of two create requests under way at the same time
\* for one PropertyID that had no row, whatever the order of their steps,
\* exactly one is answered with success and the other with a failure, and
\* the row is the item of the successful one (the store answering both).
RacingCreates ==
    \A c, d \in Clients :
        RacedCreates(c, d) =>
            /\ {inflight[c].status, inflight[d].status} = {201, 500}
            /\ \A w \in {c, d} :
                   inflight[w].status = 201 =>
                       /\ inflight[w].Item.PropertyID.s \in DOMAIN store
                       /\ store[inflight[w].Item.PropertyID.s] = inflight[w].Item

\* two creates of different Titles raced for one PropertyID, and the one
\* received second won
RacingCreatesWitness ==
    /\ RacedCreates("c1", "c2")
    /\ inflight["c1"].Item # inflight["c2"].Item
    /\ inflight["c1"].status = 500
    /\ inflight["c2"].status = 201

\* the order in which the fields of a create are checked
FieldOrder ==
    <<"PropertyID", "Title", "Description", "PropertyType", "Price", "PropertyLocation">>

\* the fields of body b that break the data model, by their place in FieldOrder
Violations(b) == {i \in DOMAIN FieldOrder : ~FieldOK(FieldOrder[i], b[FieldOrder[i]])}

FirstViolated(b) ==
    FieldOrder[CHOOSE i \in Violations(b) : \A j \in Violations(b) : i <= j]

\* the message of a 400 that names field f
ErrorNaming(f) ==
    IF f = "PropertyType"
      THEN "Invalid PropertyType (Must be 'Rent' or 'Sale')"
      ELSE "Invalid " \o f

EmptyValue(v) == v \in {Undef, Str(<<>>), Num(0)}

\* the update request r supplies no value for any mutable field
UpdatesNothing(r) == IsUpdate(r) /\ \A f \in MutableFields : EmptyValue(r.body[f])

\* C15. Empty update rejected: an update whose payload supplies no non-empty
\* value for any of the five mutable fields is answered 400 "No fields to
\* update", whether its id has a row or not; no command is sent to the store
\* and the store is as it was.
EmptyUpdateRejected ==
    [][UpdatesNothing(req') =>
          /\ res'.status = 400
          /\ res'.error = "No fields to update"
          /\ sent' = "none"
          /\ store' = store]_vars

\* an update with an empty Title and nothing else, of an id that has a row,
\* was answered 400
EmptyUpdateRejectedWitness ==
    /\ UpdatesNothing(req)
    /\ req.body.Title = Str(<<>>)
    /\ req.id \in DOMAIN store
    /\ res.status = 400

\* the request r meets the guard of its command on table: a create of a
\* valid listing whose PropertyID has a row, an update that supplies a field
\* for an id without a row, or a delete of an id without a row
FailsGuard(r, table) ==
    \/ CreatesExisting(r, table) /\ ValidListing(r.body)
    \/ /\ IsUpdate(r)
       /\ \E f \in MutableFields : ~EmptyValue(r.body[f])
       /\ r.id \notin DOMAIN table
    \/ IsDelete(r) /\ r.id \notin DOMAIN table

DataModelInvariant ==
    \A k \in DOMAIN store : \A f \in MutableFields : FieldOK(f, store[k][f])

\* C18. Row layout: every row of the store has the six attributes of a
\* Listing and no other, whatever other attributes a payload carried.
RowLayout ==
    \A k \in DOMAIN store :
        \A f \in BodyFields : (store[k][f] # Undef) <=> (f \in ListingFields)

\* C19. PropertyID immutability: no update changes the PropertyID of a row,
\* also when its payload carries a PropertyID, and the PropertyID attribute
\* of every row is the key of the row.
PropertyIDImmutable ==
    [][/\ \A k \in DOMAIN store' : store'[k].PropertyID = Str(k)
       /\ IsUpdate(req') =>
              \A k \in DOMAIN store :
                  k \in DOMAIN store' /\ store'[k].PropertyID = store[k].PropertyID]_vars

\* an update whose payload carries the PropertyID of another listing
\* succeeded, and the row has the PropertyID of its key
PropertyIDImmutableWitness ==
    /\ IsUpdate(req)
    /\ res.status = 200
    /\ TypeOf(req.body.PropertyID) = "string"
    /\ req.body.PropertyID # Str(req.id)
    /\ store[req.id].PropertyID = Str(req.id)

\* C20. Full-field rewrite: an update that succeeds sets the five mutable
\* fields of the row to the values of the payload (the string fields as the
\* sanitizing variant rewrites them), so a mutable field the payload leaves
\* out is empty or undefined in the row afterwards, whatever it was before.
FullFieldRewrite ==
    [][(IsUpdate(req') /\ res'.status = 200) =>
          /\ req'.id \in DOMAIN store'
          /\ \A f \in MutableFields :
                 /\ store'[req'.id][f] = Persisted(f, req'.body[f])
                 /\ req'.body[f] = Undef => store'[req'.id][f] \in {Undef, Str(<<>>)}]_vars

\* an update without a Title succeeded, and the Title of the row is empty
FullFieldRewriteWitness ==
    /\ IsUpdate(req)
    /\ res.status = 200
    /\ req.body.Title = Undef
    /\ store[req.id].Title = Str(<<>>)

\* the update request r supplies, as received, a value for a mutable field
SuppliesField(r) == \E f \in MutableFields : Truthy(r.body[f])

\* C21. Pipeline order on write paths: a create and an update are accepted
\* or rejected on the input as received, never on the sanitized values (the
\* sanitizer runs after validation has passed), and the command goes to the
\* store only for a request that was accepted.
PipelineOrder ==
    [][/\ IsCreate(req') =>
              /\ res'.status = 400 <=> ~ValidListing(req'.body)
              /\ sent' # "none" <=> ValidListing(req'.body)
       /\ IsUpdate(req') =>
              /\ res'.status = 400 <=> ~SuppliesField(req')
              /\ sent' # "none" <=> SuppliesField(req')]_vars

\* the requests of clients u and d are an answered update and an answered
\* delete of one id
RacedUpdateDelete(u, d) ==
    /\ inflight[u].op = "PUT" /\ inflight[u].pc = "responded"
    /\ inflight[d].op = "DELETE" /\ inflight[d].pc = "responded"
    /\ inflight[u].id = inflight[d].id

\* in this step the table executes the update of client u
ExecutesUpdate(u) ==
    /\ inflight[u].op = "PUT"
    /\ inflight[u].pc = "sending"
    /\ inflight'[u].pc = "settled"

\* C22. Racing update and delete: of an update and a delete of one id that
\* has a row, under way at the same time, whatever the order of their steps:
\* when the delete is answered with success the store has no row of the id
\* once both are answered; an update the table executes after the delete
\* fails, is answered 500, and makes no row.
RacingUpdateDelete ==
    [][\A u, d \in Clients :
          /\ (RacedUpdateDelete(u, d)' /\ inflight'[d].status = 200) =>
                 /\ inflight'[d].id \notin DOMAIN store'
                 /\ inflight'[u].err # "" => inflight'[u].status = 500
          /\ (ExecutesUpdate(u) /\ inflight[u].id \notin DOMAIN store) =>
                 /\ inflight'[u].err # ""
                 /\ store' = store]_vars

\* the delete won the race: it was answered 200, the update that the table
\* executed after it was refused by the guard and answered 500, no row is left
RacingUpdateDeleteWitness ==
    /\ RacedUpdateDelete("c1", "c2")
    /\ inflight["c2"].status = 200
    /\ inflight["c1"].err = ConditionalCheckFailed
    /\ inflight["c1"].status = 500
    /\ inflight["c1"].id = FirstId
    /\ FirstId \notin DOMAIN store

\* the request of client c is under way: its handler awaits the store
UnderWay(c) == inflight[c].pc \in {"sending", "settled"}

\* the handler of the request of client c has ended
Ended(c) == inflight[c].pc = "responded"

SuppliesOnlyFalsy(b, f) ==
    /\ b[f] \in {Num(0), Str(<<>>)}
    /\ \A g \in MutableFields \ {f} : b[g] = Undef

\* C24. Falsy-field check on update: the no-fields check tests the five
\* mutable fields for truthiness, so an update whose only supplied mutable
\* field is a Price of 0 or an empty string is answered 400 "No fields to
\* update" and sends no command, also when its id has a row.
FalsyFieldCheck ==
    [][\A f \in MutableFields :
          (IsUpdate(req') /\ SuppliesOnlyFalsy(req'.body, f)) =>
              /\ res'.status = 400
              /\ res'.error = "No fields to update"
              /\ sent' = "none"
              /\ store' = store]_vars

\* an update of an id that has a row, supplying a Price of 0 alone, was
\* answered 400
FalsyFieldCheckWitness ==
    /\ IsUpdate(req)
    /\ SuppliesOnlyFalsy(req.body, "Price")
    /\ req.body.Price = Num(0)
    /\ req.id \in DOMAIN store
    /\ res.status = 400
    /\ res.error = "No fields to update"

====
